---- MODULE Spec2Model ----
(***************************************************************************)
(* Model of vitis/mpu9250/mpu9250.c: the bare-metal MPU9250 / AK8963       *)
(* driver.  One thread of control: main() runs init_mpu9250() once and     *)
(* then loops over read_mpu9250(), read_magnetometer(), usleep().          *)
(*                                                                         *)
(* The AXI IIC primitives (XIic_Initialize, XIic_Send, XIic_Recv) and the  *)
(* two devices are the environment: what they return is an input, drawn    *)
(* from small sets.  Registers are written in decimal, the hexadecimal     *)
(* value of the source is given in the comment.                            *)
(***************************************************************************)
EXTENDS Integers, Sequences, FiniteSets, TLC

(* ---------------- program constants ---------------- *)
\* #define MPU_ADDR 0x68
MPU_ADDR == 104
\* #define MAG_ADDR 0x0C
MAG_ADDR == 12
\* XST_SUCCESS / XST_FAILURE of xstatus.h, as compared at line 152
XST_SUCCESS == 0
XST_FAILURE == 1
\* registers named by the calls of init_mpu9250 / read_*
REG_PWR_MGMT == 107      \* 0x6B
REG_CONFIG == 26         \* 0x1A
REG_GYRO_CFG == 27       \* 0x1B
REG_ACCEL_CFG == 28      \* 0x1C
REG_ACCEL_CFG2 == 29     \* 0x1D
REG_SMPLRT_DIV == 25     \* 0x19
REG_INT_PIN_CFG == 55    \* 0x37
REG_ACCEL_OUT == 59      \* 0x3B
REG_MAG_WIA == 0         \* 0x00
REG_MAG_ST1 == 2         \* 0x02
REG_MAG_DATA == 3        \* 0x03
REG_MAG_CNTL == 10       \* 0x0A
REG_MAG_ASA == 16        \* 0x10
\* values written to the magnetometer control register
MODE_POWER_DOWN == 0     \* 0x00
MODE_FUSE_ROM == 15      \* 0x0F
MODE_CONT_16BIT == 22    \* 0x16
\* burst lengths
MPU_BURST == 14
MAG_BURST == 7
ASA_LEN == 3

(* ---------------- bounds of the model ---------------- *)
\* the cycle counter saturates here; the loop itself never stops
MaxCycles == 2

(* ---------------- inputs: what the bus and the devices may answer ------- *)
\* XIic_Send returns the number of bytes sent, 0..ByteCount
SendCounts(n) == 0..n
\* XIic_Recv returns the number of bytes received: none, all but one, all
RecvCounts(n) == {0, n - 1, n}
\* status bytes ST1 the magnetometer may deliver (bit 0 = DRDY, bit 1 = DOR)
StatusBytes == {0, 1, 2, 3}
\* an uninitialised uint8_t local may hold any byte; these cover both values
\* of every bit the code tests
IndeterminateBytes == {0, 255}
\* 7-byte magnetometer bursts: HXL HXH HYL HYH HZL HZH ST2
\* (ST2 bit 3 = overflow, bit 4 = 16-bit output)
MagSamples ==
    { <<100, 0, 0, 255, 52, 18, st2>> : st2 \in {16, 24} }
        \cup { <<156, 255, 1, 0, 0, 128, st2>> : st2 \in {0, 8} }
\* 14-byte accel / temp / gyro bursts, most significant byte first
MpuSamples ==
    { <<16, 0, 240, 0, 0, 0, 0, 0, 6, 104, 255, 255, 128, 0>>,
      <<0, 1, 0, 2, 0, 3, 1, 84, 0, 4, 0, 5, 0, 6>> }
\* 3-byte answers to a read at 0x10
AsaSamples == { <<128, 128, 128>>, <<176, 170, 165>> }
\* 1-byte answers to a read at 0x00 (0x48 is the AK8963 identity)
WhoSamples == {72}
\* control-register value the magnetometer holds when the program starts
MagModes == {MODE_POWER_DOWN, MODE_FUSE_ROM, MODE_CONT_16BIT}

VARIABLES
    pc,         \* position of main(): "main", "xiic", "init", "read_mpu",
                \* "read_mag", "read_mag_data", "usleep"
    step,       \* index of the next call of init_mpu9250 (into InitSeq)
    iicStatus,  \* Status of XIic_Initialize, -1 before the call
    started,    \* XIic_Start has been called
    ASA,        \* static uint8_t ASA[3]
    st1,        \* the local st1 of read_magnetometer (-1 outside the function)
    magCntl,    \* the magnetometer's control register (device state)
    call,       \* the last IIC_WriteReg / IIC_ReadReg call of init_mpu9250 or
                \* of the current cycle, and its results
    initTrace,  \* bus transactions issued by init_mpu9250, in order
    initOut,    \* console lines printed before the loop
    cycCalls,   \* IIC_ReadReg calls of the current acquisition cycle
    cycTrace,   \* bus transactions of the current acquisition cycle
    cycOut,     \* console lines of the current acquisition cycle
    cycles,     \* completed acquisition cycles (saturating at MaxCycles)
    busFault,   \* some transaction of init_mpu9250 transferred short
    asaStores   \* receives that stored bytes into ASA so far

vars == <<pc, step, iicStatus, started, ASA, st1, magCntl, call, initTrace,
          initOut, cycCalls, cycTrace, cycOut, cycles, busFault, asaStores>>

(* ---------------- helpers ---------------- *)
Min(a, b) == IF a < b THEN a ELSE b

\* (hi << 8) | lo assigned to an int16_t
Int16(hi, lo) ==
    LET u == hi * 256 + lo
    IN  IF u >= 32768 THEN u - 65536 ELSE u

\* the first n elements of s
Take(s, n) == SubSeq(s, 1, n)

\* buf after a receive that stored the first n bytes of bytes into it
Fill(buf, bytes, n) ==
    [i \in 1..Len(buf) |-> IF i <= n THEN bytes[i] ELSE buf[i]]

SendTxn(dev, bytes, opt) ==
    [t |-> "send", dev |-> dev, bytes |-> bytes, len |-> Len(bytes), opt |-> opt]

RecvTxn(dev, len, opt) ==
    [t |-> "recv", dev |-> dev, bytes |-> <<>>, len |-> len, opt |-> opt]

Line(kind, vals) == [kind |-> kind, vals |-> vals, asa |-> <<>>]

(* ---------------- Bus Transaction Helper ---------------- *)
\* IIC_WriteReg: one 2-byte send terminated with stop; returns its result.
\* sent is what XIic_Send answered.
IIC_WriteReg(dev, reg, data, sent) ==
    [fn |-> "IIC_WriteReg", dev |-> dev, reg |-> reg, len |-> 2,
     sent |-> sent, rcvd |-> -1, ret |-> sent, got |-> <<>>,
     txns |-> << SendTxn(dev, <<reg, data>>, "STOP") >>]

\* a faulty IIC_ReadReg that does not test the status of the address phase
IIC_ReadReg_NoStatusCheck(dev, reg, len, sent, rcvd, bytes) ==
    [fn |-> "IIC_ReadReg", dev |-> dev, reg |-> reg, len |-> len,
     sent |-> sent, rcvd |-> rcvd, ret |-> rcvd, got |-> Take(bytes, rcvd),
     txns |-> << SendTxn(dev, <<reg>>, "REPEATED_START"),
                 RecvTxn(dev, len, "STOP") >>]

\* IIC_ReadReg: 1-byte send with repeated start; if it did not send one byte
\* return its status, else receive len bytes with stop and return that result.
\* sent / rcvd are what XIic_Send / XIic_Recv answer, bytes what the device
\* delivers; got is the prefix of bytes stored into buf.
IIC_ReadReg(dev, reg, len, sent, rcvd, bytes) ==
    IF sent # 1
    THEN [fn |-> "IIC_ReadReg", dev |-> dev, reg |-> reg, len |-> len,
          sent |-> sent, rcvd |-> -1, ret |-> sent, got |-> <<>>,
          txns |-> << SendTxn(dev, <<reg>>, "REPEATED_START") >>]
    ELSE [fn |-> "IIC_ReadReg", dev |-> dev, reg |-> reg, len |-> len,
          sent |-> sent, rcvd |-> rcvd, ret |-> rcvd, got |-> Take(bytes, rcvd),
          txns |-> << SendTxn(dev, <<reg>>, "REPEATED_START"),
                      RecvTxn(dev, len, "STOP") >>]

NoCall ==
    [fn |-> "none", dev |-> 0, reg |-> 0, len |-> 0, sent |-> -1, rcvd |-> -1,
     ret |-> -1, got |-> <<>>, txns |-> <<>>]

(* ---------------- init_mpu9250 ---------------- *)
W(dev, reg, val) == [op |-> "w", dev |-> dev, reg |-> reg, val |-> val, len |-> 2]
R(dev, reg, len) == [op |-> "r", dev |-> dev, reg |-> reg, val |-> 0, len |-> len]

\* a faulty order: continuous mode commanded before the fuse-ROM sequence
InitSeq_ContinuousFirst ==
    << W(MPU_ADDR, REG_PWR_MGMT, 0),
       W(MPU_ADDR, REG_CONFIG, 3),
       W(MPU_ADDR, REG_GYRO_CFG, 24),
       W(MPU_ADDR, REG_ACCEL_CFG, 16),
       W(MPU_ADDR, REG_ACCEL_CFG2, 3),
       W(MPU_ADDR, REG_SMPLRT_DIV, 7),
       W(MPU_ADDR, REG_INT_PIN_CFG, 2),
       W(MAG_ADDR, REG_MAG_CNTL, MODE_CONT_16BIT),
       W(MAG_ADDR, REG_MAG_CNTL, MODE_POWER_DOWN),
       R(MAG_ADDR, REG_MAG_ASA, ASA_LEN),
       W(MAG_ADDR, REG_MAG_CNTL, MODE_FUSE_ROM),
       R(MAG_ADDR, REG_MAG_WIA, 1),
       W(MAG_ADDR, REG_MAG_CNTL, MODE_POWER_DOWN),
       R(MAG_ADDR, REG_MAG_ASA, ASA_LEN) >>

\* the register accesses of init_mpu9250 after XIic_Start, in program order
InitSeq ==
    << W(MPU_ADDR, REG_PWR_MGMT, 0),                  \* 0x6B <- 0x00
       W(MPU_ADDR, REG_CONFIG, 3),                    \* 0x1A <- 0x03
       W(MPU_ADDR, REG_GYRO_CFG, 24),                 \* 0x1B <- 0x18
       W(MPU_ADDR, REG_ACCEL_CFG, 16),                \* 0x1C <- 0x10
       W(MPU_ADDR, REG_ACCEL_CFG2, 3),                \* 0x1D <- 0x03
       W(MPU_ADDR, REG_SMPLRT_DIV, 7),                \* 0x19 <- 0x07
       W(MPU_ADDR, REG_INT_PIN_CFG, 2),               \* 0x37 <- 0x02
       W(MAG_ADDR, REG_MAG_CNTL, MODE_POWER_DOWN),    \* 0x0A <- 0x00
       W(MAG_ADDR, REG_MAG_CNTL, MODE_FUSE_ROM),      \* 0x0A <- 0x0F
       R(MAG_ADDR, REG_MAG_ASA, ASA_LEN),             \* ASA <- 0x10..0x12
       W(MAG_ADDR, REG_MAG_CNTL, MODE_POWER_DOWN),    \* 0x0A <- 0x00
       R(MAG_ADDR, REG_MAG_WIA, 1),                   \* who <- 0x00
       W(MAG_ADDR, REG_MAG_CNTL, MODE_CONT_16BIT),    \* 0x0A <- 0x16
       R(MAG_ADDR, REG_MAG_ASA, ASA_LEN) >>           \* ASA <- 0x10..0x12

\* position in InitSeq of the first read at 0x10 (line 181)
FuseReadIdx ==
    CHOOSE i \in 1..Len(InitSeq) :
        /\ InitSeq[i].op = "r" /\ InitSeq[i].reg = REG_MAG_ASA
        /\ \A j \in 1..(i - 1) : ~(InitSeq[j].op = "r" /\ InitSeq[j].reg = REG_MAG_ASA)

\* where main() is once init_mpu9250 has returned
AfterInit(k) == IF k > Len(InitSeq) THEN "read_mpu" ELSE "init"

Init ==
    /\ pc = "main"
    /\ step = 0
    /\ iicStatus = -1
    /\ started = FALSE
    /\ ASA = <<0, 0, 0>>
    /\ st1 = -1
    /\ magCntl \in MagModes
    /\ call = NoCall
    /\ initTrace = <<>>
    /\ initOut = <<>>
    /\ cycCalls = <<>>
    /\ cycTrace = <<>>
    /\ cycOut = <<>>
    /\ cycles = 0
    /\ busFault = FALSE
    /\ asaStores = 0

\* main, lines 66-68: init_platform(); print("Iniciando MPU9250...")
MainStart ==
    /\ pc = "main"
    /\ pc' = "xiic"
    /\ initOut' = Append(initOut, Line("boot", <<>>))
    /\ UNCHANGED <<step, iicStatus, started, ASA, st1, magCntl, call, initTrace,
                   cycCalls, cycTrace, cycOut, cycles, busFault, asaStores>>

\* init_mpu9250, lines 150-157: XIic_Initialize; on failure print and return
\* (to main, which goes on to the loop); on success XIic_Start.
XIicInitialize ==
    /\ pc = "xiic"
    /\ \E status \in {XST_SUCCESS, XST_FAILURE} :
        /\ iicStatus' = status
        /\ IF status # XST_SUCCESS
           THEN /\ initOut' = Append(initOut, Line("iic_error", <<>>))
                /\ pc' = "read_mpu"
                /\ UNCHANGED <<started, step>>
           ELSE /\ started' = TRUE
                /\ step' = 1
                /\ pc' = "init"
                /\ UNCHANGED initOut
    /\ UNCHANGED <<ASA, st1, magCntl, call, initTrace, cycCalls, cycTrace,
                   cycOut, cycles, busFault, asaStores>>

\* one IIC_WriteReg call of init_mpu9250 (and the usleep after it): the
\* return value is discarded.  The device takes the value only when both
\* bytes were transferred.
InitWrite ==
    /\ pc = "init"
    /\ step <= Len(InitSeq)
    /\ InitSeq[step].op = "w"
    /\ \E sent \in SendCounts(2) :
        LET s == InitSeq[step]
            c == IIC_WriteReg(s.dev, s.reg, s.val, sent)
        IN  /\ call' = c
            /\ initTrace' = initTrace \o c.txns
            /\ magCntl' = IF s.dev = MAG_ADDR /\ s.reg = REG_MAG_CNTL /\ c.ret = 2
                          THEN s.val ELSE magCntl
            /\ busFault' = (busFault \/ c.ret # 2)
    /\ step' = step + 1
    /\ pc' = AfterInit(step + 1)
    /\ UNCHANGED <<iicStatus, started, ASA, st1, initOut, cycCalls, cycTrace,
                   cycOut, cycles, asaStores>>

\* IIC_ReadReg(MAG_ADDR, 0x10, ASA, 3), lines 181 and 195; the second one is
\* followed by xil_printf("ASA: ...").  The return value is discarded.
InitReadASA ==
    /\ pc = "init"
    /\ step <= Len(InitSeq)
    /\ InitSeq[step].op = "r"
    /\ InitSeq[step].reg = REG_MAG_ASA
    /\ \E sent \in SendCounts(1), rcvd \in RecvCounts(ASA_LEN), bytes \in AsaSamples :
        LET s == InitSeq[step]
            c == IIC_ReadReg(s.dev, s.reg, s.len, sent, rcvd, bytes)
            a == Fill(ASA, c.got, Len(c.got))
        IN  /\ call' = c
            /\ initTrace' = initTrace \o c.txns
            /\ ASA' = a
            /\ busFault' = (busFault \/ c.ret # s.len)
            /\ asaStores' = IF Len(c.got) > 0 THEN asaStores + 1 ELSE asaStores
            /\ initOut' = IF step = Len(InitSeq)
                          THEN Append(initOut, Line("asa", a)) ELSE initOut
    /\ step' = step + 1
    /\ pc' = AfterInit(step + 1)
    /\ UNCHANGED <<iicStatus, started, st1, magCntl, cycCalls, cycTrace, cycOut,
                   cycles>>

\* uint8_t who = 0; IIC_ReadReg(MAG_ADDR, 0x00, &who, 1); xil_printf(who)
InitReadWho ==
    /\ pc = "init"
    /\ step <= Len(InitSeq)
    /\ InitSeq[step].op = "r"
    /\ InitSeq[step].reg = REG_MAG_WIA
    /\ \E sent \in SendCounts(1), rcvd \in RecvCounts(1), w \in WhoSamples :
        LET s == InitSeq[step]
            c == IIC_ReadReg(s.dev, s.reg, s.len, sent, rcvd, <<w>>)
            who == Fill(<<0>>, c.got, Len(c.got))
        IN  /\ call' = c
            /\ initTrace' = initTrace \o c.txns
            /\ busFault' = (busFault \/ c.ret # s.len)
            /\ initOut' = Append(initOut, Line("who", who))
    /\ step' = step + 1
    /\ pc' = AfterInit(step + 1)
    /\ UNCHANGED <<iicStatus, started, ASA, st1, magCntl, cycCalls, cycTrace,
                   cycOut, cycles, asaStores>>

(* ---------------- read_mpu9250 ---------------- *)
\* a faulty test that lets a partial burst through
MpuReadFailed_OnlyEmpty(ret) == ret <= 0

\* if (IIC_ReadReg(MPU_ADDR, 0x3B, data, 14) != 14)
MpuReadFailed(ret) == ret # MPU_BURST

\* the printed line: the seven values as exact numerators; the denominators
\* are 4096 (g), 3400 (degrees C: raw / 340 + 36.53) and 82 (dps: raw / 16.4)
MpuLine(d) ==
    Line("mpu",
         << Int16(d[1], d[2]), Int16(d[3], d[4]), Int16(d[5], d[6]),
            10 * Int16(d[7], d[8]) + 124202,
            5 * Int16(d[9], d[10]), 5 * Int16(d[11], d[12]),
            5 * Int16(d[13], d[14]) >>)

read_mpu9250 ==
    /\ pc = "read_mpu"
    /\ \E sent \in SendCounts(1), rcvd \in RecvCounts(MPU_BURST),
          bytes \in MpuSamples, junk \in IndeterminateBytes :
        LET c == IIC_ReadReg(MPU_ADDR, REG_ACCEL_OUT, MPU_BURST, sent, rcvd, bytes)
            data == Fill([i \in 1..MPU_BURST |-> junk], c.got, Len(c.got))
        IN  /\ call' = c
            /\ cycCalls' = Append(cycCalls, c)
            /\ cycTrace' = cycTrace \o c.txns
            /\ cycOut' = IF MpuReadFailed(c.ret)
                         THEN Append(cycOut, Line("mpu_error", <<>>))
                         ELSE Append(cycOut, MpuLine(data))
    /\ pc' = "read_mag"
    /\ UNCHANGED <<step, iicStatus, started, ASA, st1, magCntl, initTrace,
                   initOut, cycles, busFault, asaStores>>

(* ---------------- read_magnetometer ---------------- *)
\* a faulty test of the wrong status bit (0x02, data overrun)
DataReady_WrongBit(b) == (b \div 2) % 2 = 1

\* st1 & 0x01
DataReady(b) == b % 2 = 1

\* a faulty test of the wrong ST2 bit (0x10, output bit setting)
Overflow_WrongBit(b) == (b \div 16) % 2 = 1

\* data[6] & 0x08
Overflow(b) == (b \div 8) % 2 = 1

\* if (IIC_ReadReg(MAG_ADDR, 0x03, data, 7) != 7)
MagReadFailed(ret) == ret # MAG_BURST

\* a faulty conversion that ignores the adjustment bytes (factor 1.0)
MagLine_NoAdjust(d, asa) ==
    [kind |-> "mag",
     vals |-> << Int16(d[2], d[1]) * 256 * 15, Int16(d[4], d[3]) * 256 * 15,
                 Int16(d[6], d[5]) * 256 * 15 >>,
     asa |-> <<128, 128, 128>>]

\* the printed line: raw * (((ASA - 128) / 256) + 1) * 0.15 as exact numerators
\* over 25600, and the adjustment bytes the conversion read
MagLine(d, asa) ==
    [kind |-> "mag",
     vals |-> << Int16(d[2], d[1]) * (asa[1] + 128) * 15,
                 Int16(d[4], d[3]) * (asa[2] + 128) * 15,
                 Int16(d[6], d[5]) * (asa[3] + 128) * 15 >>,
     asa |-> asa]

\* lines 254-258: the status read, whose return value is discarded; st1 is
\* not initialised, so it keeps an indeterminate value when nothing is stored.
read_magnetometer_status ==
    /\ pc = "read_mag"
    /\ \E sent \in SendCounts(1), rcvd \in RecvCounts(1), b \in StatusBytes,
          junk \in IndeterminateBytes :
        LET c == IIC_ReadReg(MAG_ADDR, REG_MAG_ST1, 1, sent, rcvd, <<b>>)
            v == Fill(<<junk>>, c.got, Len(c.got))[1]
        IN  /\ call' = c
            /\ cycCalls' = Append(cycCalls, c)
            /\ cycTrace' = cycTrace \o c.txns
            /\ st1' = IF ~DataReady(v) THEN -1 ELSE v
            /\ pc' = IF ~DataReady(v) THEN "usleep" ELSE "read_mag_data"
    /\ UNCHANGED <<step, iicStatus, started, ASA, magCntl, initTrace, initOut,
                   cycOut, cycles, busFault, asaStores>>

\* lines 260-283: the 7-byte read, the overflow test, conversion and printf
read_magnetometer_data ==
    /\ pc = "read_mag_data"
    /\ \E sent \in SendCounts(1), rcvd \in RecvCounts(MAG_BURST),
          bytes \in MagSamples, junk \in IndeterminateBytes :
        LET c == IIC_ReadReg(MAG_ADDR, REG_MAG_DATA, MAG_BURST, sent, rcvd, bytes)
            data == Fill([i \in 1..MAG_BURST |-> junk], c.got, Len(c.got))
        IN  /\ call' = c
            /\ cycCalls' = Append(cycCalls, c)
            /\ cycTrace' = cycTrace \o c.txns
            /\ cycOut' = IF MagReadFailed(c.ret)
                         THEN Append(cycOut, Line("mag_error", <<>>))
                         ELSE IF Overflow(data[MAG_BURST])
                              THEN cycOut
                              ELSE Append(cycOut, MagLine(data, ASA))
    /\ st1' = -1
    /\ pc' = "usleep"
    /\ UNCHANGED <<step, iicStatus, started, ASA, magCntl, initTrace,
                   initOut, cycles, busFault, asaStores>>

\* usleep(1000000) and the jump back to the head of while (1); the records of
\* the finished cycle are dropped
usleep ==
    /\ pc = "usleep"
    /\ pc' = "read_mpu"
    /\ cycles' = Min(cycles + 1, MaxCycles)
    /\ cycCalls' = <<>>
    /\ cycTrace' = <<>>
    /\ cycOut' = <<>>
    /\ call' = NoCall
    /\ UNCHANGED <<step, iicStatus, started, ASA, st1, magCntl, initTrace,
                   initOut, busFault, asaStores>>

Next ==
    \/ MainStart
    \/ XIicInitialize
    \/ InitWrite
    \/ InitReadASA
    \/ InitReadWho
    \/ read_mpu9250
    \/ read_magnetometer_status
    \/ read_magnetometer_data
    \/ usleep

Spec == Init /\ [][Next]_vars

(* ======================= properties ======================= *)
\* main() is in the while (1) loop
Running == pc \in {"read_mpu", "read_mag", "read_mag_data", "usleep"}

\* read_mpu9250 has been called in the current cycle
CycleStarted == pc \in {"read_mag", "read_mag_data", "usleep"}

\* the positions of the lines of a kind in a console record
LinesOf(out, kind) == {i \in DOMAIN out : out[i].kind = kind}

\* the positions of the calls on a register of a device in the current cycle
CallsOn(dev, reg) ==
    {i \in DOMAIN cycCalls : cycCalls[i].dev = dev /\ cycCalls[i].reg = reg}

\* the transactions a step appended to the trace it writes
NewTxns ==
    IF initTrace' # initTrace
    THEN SubSeq(initTrace', Len(initTrace) + 1, Len(initTrace'))
    ELSE IF Len(cycTrace') > Len(cycTrace)
         THEN SubSeq(cycTrace', Len(cycTrace) + 1, Len(cycTrace'))
         ELSE <<>>

\* C1: if XIic_Initialize fails, no acquisition cycle ever occurs: neither
\* read_mpu9250 nor read_magnetometer is called and no bus transaction is
\* issued.
C1_NoCycleAfterInitFailure ==
    iicStatus = XST_FAILURE =>
        /\ ~CycleStarted
        /\ cycCalls = <<>>
        /\ cycTrace = <<>>

\* C2: a magnetometer register read that returns fewer bytes than requested
\* is reported, ends the magnetometer step, and no magnetometer line is
\* produced in that cycle.  Stated for runs whose bus initialization
\* succeeded.
C2_MagShortReadReported ==
    \A i \in DOMAIN cycCalls :
        (/\ iicStatus = XST_SUCCESS
         /\ cycCalls[i].dev = MAG_ADDR
         /\ cycCalls[i].ret # cycCalls[i].len) =>
            /\ LinesOf(cycOut, "mag_error") # {}
            /\ LinesOf(cycOut, "mag") = {}
            /\ i = Len(cycCalls)
            /\ pc = "usleep"

\* C3: when the 14-byte burst at 0x3B returns a count other than 14, the
\* error is reported, no sensor line is printed, the read is attempted once
\* in the cycle, and the cycle goes on to the magnetometer step and the sleep.
C3_MpuShortRead ==
    (CycleStarted /\ cycCalls[1].ret # 14) =>
        /\ cycCalls[1].dev = MPU_ADDR /\ cycCalls[1].reg = REG_ACCEL_OUT
        /\ cycOut[1].kind = "mpu_error"
        /\ LinesOf(cycOut, "mpu_error") = {1}
        /\ LinesOf(cycOut, "mpu") = {}
        /\ CallsOn(MPU_ADDR, REG_ACCEL_OUT) = {1}
        /\ Cardinality({j \in DOMAIN cycTrace :
                           cycTrace[j].dev = MPU_ADDR /\ cycTrace[j].t = "send"}) = 1
        /\ pc \in {"read_mag", "read_mag_data", "usleep"}
        /\ (pc # "read_mag" => CallsOn(MAG_ADDR, REG_MAG_ST1) = {2})

C3_Witness ==
    /\ pc = "usleep"
    /\ cycCalls[1].sent = 1
    /\ cycCalls[1].ret = 13
    /\ cycOut[1].kind = "mpu_error"
    /\ Len(cycCalls) >= 2

\* C4: every IIC_ReadReg call issues the 1-byte register-address send with
\* repeated start; if that send transferred one byte the receive of len bytes
\* with stop follows at once and its result is returned; otherwise the send
\* status is returned and no receive is issued.
C4_ReadRegTwoPhase ==
    [][ (NewTxns # <<>> /\ call'.fn = "IIC_ReadReg") =>
            /\ NewTxns[1] = [t |-> "send", dev |-> call'.dev,
                             bytes |-> <<call'.reg>>, len |-> 1,
                             opt |-> "REPEATED_START"]
            /\ IF call'.sent = 1
               THEN /\ Len(NewTxns) = 2
                    /\ NewTxns[2] = [t |-> "recv", dev |-> call'.dev,
                                     bytes |-> <<>>, len |-> call'.len,
                                     opt |-> "STOP"]
                    /\ call'.ret = call'.rcvd
               ELSE /\ Len(NewTxns) = 1
                    /\ call'.ret = call'.sent ]_vars

C4_Witness ==
    /\ pc = "read_mag"
    /\ call.fn = "IIC_ReadReg"
    /\ call.sent = 0
    /\ call.ret = 0
    /\ Len(cycTrace) = 1
    /\ cycTrace[1].t = "send"

\* C5: Running is entered exactly once and only through the initialization
\* sequence, which has been issued in full, once, before the first cycle.
C5_RunningOnlyAfterInitSequence ==
    Running =>
        /\ started
        /\ step = Len(InitSeq) + 1
        /\ Len(SelectSeq(initTrace, LAMBDA x : x.t = "send")) = Len(InitSeq)

C7_InitWriteFailureLogged ==
    (call.fn = "IIC_WriteReg" /\ call.ret # 2) =>
        \E i \in DOMAIN initOut : initOut[i].kind \notin {"boot", "who", "asa"}

\* the order of register accesses the claim lists
C8_Order ==
    << <<"w", 104, 107, 0>>, <<"w", 104, 26, 3>>, <<"w", 104, 27, 24>>,
       <<"w", 104, 28, 16>>, <<"w", 104, 29, 3>>, <<"w", 104, 25, 7>>,
       <<"w", 104, 55, 2>>,
       <<"w", 12, 10, 0>>, <<"w", 12, 10, 15>>, <<"r", 12, 16, 3>>,
       <<"w", 12, 10, 0>>, <<"r", 12, 0, 1>>, <<"w", 12, 10, 22>>,
       <<"r", 12, 16, 3>> >>

\* the register access a send transaction starts
AccessOf(x) ==
    IF x.opt = "STOP"
    THEN <<"w", x.dev, x.bytes[1], x.bytes[2]>>
    ELSE <<"r", x.dev, x.bytes[1]>>

\* C8: after a successful XIic_Initialize the transactions of init_mpu9250
\* are issued in the listed order, the bypass write before anything addressed
\* to the magnetometer, the continuous-mode write last among the control
\* writes; with no transaction failing, the magnetometer holds continuous
\* mode during every cycle.
C8_InitOrder ==
    iicStatus = XST_SUCCESS =>
        LET sends == SelectSeq(initTrace, LAMBDA x : x.t = "send")
        IN  /\ Len(sends) = step - 1
            /\ Len(sends) <= Len(C8_Order)
            /\ \A i \in DOMAIN sends :
                  SubSeq(C8_Order[i], 1, Len(AccessOf(sends[i]))) = AccessOf(sends[i])
            /\ \A j \in DOMAIN initTrace :
                  /\ initTrace[j].t = "recv" =>
                        /\ j > 1
                        /\ initTrace[j - 1].opt = "REPEATED_START"
                        /\ initTrace[j - 1].dev = initTrace[j].dev
                        /\ initTrace[j].len =
                             C8_Order[Len(SelectSeq(SubSeq(initTrace, 1, j),
                                                    LAMBDA x : x.t = "send"))][4]
                  /\ initTrace[j].dev = MAG_ADDR =>
                        \E i \in 1..(j - 1) :
                            initTrace[i] = SendTxn(MPU_ADDR, <<55, 2>>, "STOP")
            /\ Running => Len(sends) = Len(C8_Order)
            /\ (Running /\ ~busFault) => magCntl = 22

C8_Witness ==
    /\ pc = "usleep"
    /\ iicStatus = XST_SUCCESS
    /\ ~busFault
    /\ Len(initTrace) = 17
    /\ magCntl = 22
    /\ cycles >= 1

\* C9: when the status byte read at 0x02 has bit 0 clear, the magnetometer
\* step ends there: no 7-byte read, no magnetometer line, no error line.
C9_NotReadySkips ==
    \A i \in CallsOn(MAG_ADDR, REG_MAG_ST1) :
        (cycCalls[i].ret = 1 /\ cycCalls[i].got[1] % 2 = 0) =>
            /\ pc = "usleep"
            /\ i = Len(cycCalls)
            /\ CallsOn(MAG_ADDR, REG_MAG_DATA) = {}
            /\ \A j \in DOMAIN cycTrace :
                  cycTrace[j].dev = MAG_ADDR => cycTrace[j].bytes # <<REG_MAG_DATA>>
            /\ LinesOf(cycOut, "mag") = {}
            /\ LinesOf(cycOut, "mag_error") = {}

C9_Witness ==
    /\ pc = "usleep"
    /\ Len(cycCalls) = 2
    /\ cycCalls[2].reg = REG_MAG_ST1
    /\ cycCalls[2].ret = 1
    /\ cycCalls[2].got = <<2>>
    /\ LinesOf(cycOut, "mag") = {}

\* C10: a 7-byte read that returns 7 bytes with bit 3 of the trailing status
\* byte set prints nothing and reports nothing; with that bit clear exactly
\* one magnetometer line is printed in the cycle.
C10_OverflowDiscards ==
    \A i \in CallsOn(MAG_ADDR, REG_MAG_DATA) :
        cycCalls[i].ret = 7 =>
            /\ LinesOf(cycOut, "mag_error") = {}
            /\ IF (cycCalls[i].got[7] \div 8) % 2 = 1
               THEN LinesOf(cycOut, "mag") = {}
               ELSE Cardinality(LinesOf(cycOut, "mag")) = 1

C10_Witness ==
    /\ pc = "usleep"
    /\ Len(cycCalls) = 3
    /\ cycCalls[2].ret = 1
    /\ cycCalls[2].got[1] % 2 = 1
    /\ cycCalls[3].ret = 7
    /\ cycCalls[3].got[7] = 24
    /\ LinesOf(cycOut, "mag") = {}
    /\ LinesOf(cycOut, "mag_error") = {}
====
